---- MODULE Spec2Model ----
(***************************************************************************)
(* The incremental GitHub resources of dlt_providers.sources.github:       *)
(* the transformers `commits` and `workflow_runs`, their per-repository    *)
(* checkpoints, and the paginated REST client they consume.                *)
(*                                                                         *)
(* A step of the model is what a generator does between two requests of    *)
(* the paginator: one page is fetched and the loop body runs up to the     *)
(* next request.  The REST client and the GitHub API are the environment:  *)
(* their behaviour is fixed per behaviour by inclusiveUpper, trailingEmpty *)
(* and per_page, and by the data upstream of the repository in hand, which *)
(* are any data each time a repository is taken up.  A record of a page of *)
(* workflow runs may come without its created_at key.                      *)
(*                                                                         *)
(* The two transformers keep separate checkpoints and share no variable;   *)
(* a behaviour follows the calls of one of them (resource) over several    *)
(* pipeline runs.  The list of repositories of a call is any list over     *)
(* Repos of at most MaxParents entries, an entry may come twice.           *)
(*                                                                         *)
(* Spec is the source as it runs: one call of the generator at a time.     *)
(* ParSpec runs the body of the for loop of workflow_runs as one process   *)
(* per repository (workers) over a shared checkpoints dict.                *)
(*                                                                         *)
(* Variables below `runs` record what has happened (records yielded,       *)
(* queries issued, writes of a key); no action of the source reads them.   *)
(***************************************************************************)
EXTENDS Integers, Sequences, FiniteSets, TLC

----------------------------------------------------------------------------
(* Bounds of the exploration *)

\* repositories of the organisation
NumRepos == 2
\* longest list of repositories handed to a transformer in one run
MaxParents == 3
\* pipeline runs in one behaviour
MaxRuns == 2
\* timestamps are 1..MaxTs, ordered as the ISO-8601 strings they stand for
MaxTs == 2
\* most records of one repository carrying the same timestamp
MaxPerTs == 2
\* largest per_page of the requests (100 in the source) the exploration follows
MaxPerPage == 2
\* pages after which the source takes the query as cut by the server's cap
\* (`idx >= 9`, the tenth page, in the source), scaled down
MaxPagesPerWindow == 2
\* queries of one extraction the exploration follows
MaxWindows == 4

----------------------------------------------------------------------------
(* Values *)

\* Python's None, also the absence of a key in the checkpoints dict
None == 0
\* the cursor "*": no upper bound
OPEN == 0
\* start_date, the lower bound of a repository without a checkpoint
DEFAULT_START_DATE == 1

Repos == 1..NumRepos
Ts == 1..MaxTs
Resources == {"commits", "workflow_runs"}

Min(a, b) == IF a <= b THEN a ELSE b


\* what can be upstream of one repository: how many records carry each timestamp
Datasets == [Ts -> 0..MaxPerTs]

VARIABLES
    checkpoints,        \* resource -> repository -> watermark, None when absent
    resource,           \* the transformer that is running
    todo,               \* repositories the iterator still holds
    pc,                 \* "idle", "next" (head of the for loop), "page" (in the page loop)
    repo,               \* repo_full_name
    checkpoint,         \* checkpoint
    cursor,             \* cursor
    latest_run_date,    \* latest_run_date
    latest_commit_date, \* latest_commit_date
    in_limit,           \* in_limit
    oldest_run_date,    \* oldest_run_date
    idx,                \* pages the paginator has handed out for the current query
    page,               \* page, the loop variable, which outlives the loop
    page_bound,         \* whether the name `page` is bound at all
    upstream,           \* the records upstream of repo while it is extracted
    inclusiveUpper,     \* the API takes lower..upper as including upper
    trailingEmpty,      \* the paginator ends every page sequence with an empty page
    per_page,           \* per_page of the requests
    runs,               \* runs started (bounds the exploration)
    emitted,            \* the records yielded for repo in this extraction, in order
    windows,            \* the queries issued for repo in this extraction, in order
    cpAtStart,          \* checkpoints[resource][repo] when the extraction started
    outcome,            \* how the extraction of repo ended, "running" until then
    writes,             \* repository -> writes of its checkpoint in this run
    visits,             \* repository -> times the iterator produced it in this run
    lastWrite,          \* repository -> the last watermark written for it in this run
    runStartCp,         \* checkpoints[resource] when this run started
    missing_field,      \* a page read in this extraction held a record without created_at
    workers,            \* repository -> the locals of the process that extracts it alone
    prev                \* the extraction before the one in hand, when this one repeats it

vars == <<checkpoints, resource, todo, pc, repo, checkpoint, cursor,
          latest_run_date, latest_commit_date, in_limit, oldest_run_date, idx,
          page, page_bound, upstream, inclusiveUpper, trailingEmpty, per_page,
          runs, emitted, windows, cpAtStart, outcome, writes, visits, lastWrite,
          runStartCp, missing_field, workers, prev>>

env == <<inclusiveUpper, trailingEmpty, per_page>>

\* what a run has done so far to the keys of its checkpoints
runLog == <<writes, visits, lastWrite, runStartCp>>

NoPrev == [repeats |-> FALSE, same_start |-> FALSE, windows |-> <<>>, emitted |-> <<>>]

----------------------------------------------------------------------------
(* The environment: the GitHub API behind RESTClient.paginate *)

\* the server's cap on the results of one query: 10 pages of 100
Cap == MaxPagesPerWindow * per_page

\* the records with timestamp t, told apart by their second component
RecsAt(u, t) == [k \in 1..u[t] |-> <<t, k>>]

RECURSIVE NewestFirst(_, _)
NewestFirst(u, t) == IF t = 0 THEN <<>> ELSE RecsAt(u, t) \o NewestFirst(u, t - 1)

\* all records of the repository, newest first (the API's order)
AllRecords(u) == NewestFirst(u, MaxTs)

created_at(r) == r[1]

Truncate(s, n) == SubSeq(s, 1, Min(n, Len(s)))

\* the range is sent without its lower end: "created": f"..{cursor}"
InCreatedRange_NoLowerEnd(r, lo, hi, incl) ==
    \/ hi = OPEN
    \/ created_at(r) < hi
    \/ incl /\ created_at(r) = hi

\* "created": f"{checkpoint}..{cursor}"
InCreatedRange(r, lo, hi, incl) ==
    /\ created_at(r) >= lo
    /\ \/ hi = OPEN
       \/ created_at(r) < hi
       \/ incl /\ created_at(r) = hi

\* the results of GET /repos/{repo}/actions/runs?created=lo..hi, cut at the cap
WorkflowRunsResults(u, lo, hi, incl) ==
    Truncate(SelectSeq(AllRecords(u), LAMBDA r : InCreatedRange(r, lo, hi, incl)), Cap)

\* the request is sent without `since`
CommitsResults_NoSince(u, lo) == AllRecords(u)

\* the results of GET /repos/{repo}/commits?since=lo
CommitsResults(u, lo) ==
    SelectSeq(AllRecords(u), LAMBDA r : created_at(r) >= lo)

NumPages(results) == (Len(results) + per_page - 1) \div per_page

PageAt(results, n) ==
    SubSeq(results, (n - 1) * per_page + 1, Min(n * per_page, Len(results)))

\* client.paginate: the pages of the results, and the empty page after them when
\* the paginator finds the end by reading an empty page
Paginate(results, trailing) ==
    [n \in 1..(NumPages(results) + (IF trailing THEN 1 ELSE 0)) |-> PageAt(results, n)]

----------------------------------------------------------------------------
(* Expressions of the source *)

\* checkpoints.get(repo_full_name, start_date)
GetCheckpoint(cps, r) == IF cps[r] = None THEN DEFAULT_START_DATE ELSE cps[r]

\* the date is taken from every page, not only from the first one
TrackLatest_EveryPage(latest, pg) == created_at(pg[1])

\* if latest_run_date is None and page: latest_run_date = page[0]["created_at"]
TrackLatest(latest, pg) == IF latest = None THEN created_at(pg[1]) ELSE latest

\* oldest_run_date = page[-1]["created_at"]
TrackOldest(pg) == created_at(pg[Len(pg)])

\* page[0]["created_at"] is read while latest_run_date is None and
\* page[-1]["created_at"] for every page; lack is the place in the page of the
\* record that has no such key, 0 when every record has it
RaisesKeyError(latest, pg, lack) ==
    /\ lack # 0
    /\ (latest = None /\ lack = 1) \/ lack = Len(pg)

\* the threshold is off by one page: if idx >= 10
LimitReached_OnePageLate(i) == i >= MaxPagesPerWindow

\* if idx >= 9: in_limit = False      (idx counts from 0)
LimitReached(i) == i >= MaxPagesPerWindow - 1

\* if not page or in_limit: break
BreakWindowLoop(pg, inl) == pg = <<>> \/ inl

\* if oldest_run_date: cursor = oldest_run_date
NextCursor(cur, oldest) == IF oldest # None THEN oldest ELSE cur

\* the pages of the query in hand
WorkflowRunsPages ==
    Paginate(WorkflowRunsResults(upstream, checkpoint, cursor, inclusiveUpper), trailingEmpty)

CommitsPages == Paginate(CommitsResults(upstream, checkpoint), trailingEmpty)

\* the locals of a process that is to extract the repository with records u
NewWorker(u) ==
    [pc |-> "start", upstream |-> u, checkpoint |-> None, cursor |-> OPEN,
     latest_run_date |-> None, in_limit |-> TRUE, oldest_run_date |-> None, idx |-> 0,
     page |-> <<>>, page_bound |-> FALSE, emitted |-> <<>>, queries |-> 0,
     outcome |-> "none", overlapped |-> FALSE]

----------------------------------------------------------------------------
Init ==
    /\ checkpoints = [res \in Resources |-> [r \in Repos |-> None]]
    /\ resource \in Resources
    /\ todo = 0
    /\ pc = "idle"
    /\ repo = 1
    /\ checkpoint = None
    /\ cursor = OPEN
    /\ latest_run_date = None
    /\ latest_commit_date = None
    /\ in_limit = TRUE
    /\ oldest_run_date = None
    /\ idx = 0
    /\ page = <<>>
    /\ page_bound = FALSE
    /\ upstream = [t \in Ts |-> 0]
    /\ inclusiveUpper \in BOOLEAN
    /\ trailingEmpty \in BOOLEAN
    /\ per_page \in 1..MaxPerPage
    /\ runs = 0
    /\ emitted = <<>>
    /\ windows = <<>>
    /\ cpAtStart = None
    /\ outcome = "none"
    /\ writes = [r \in Repos |-> 0]
    /\ visits = [r \in Repos |-> 0]
    /\ lastWrite = [r \in Repos |-> None]
    /\ runStartCp = [r \in Repos |-> None]
    /\ missing_field = FALSE
    /\ workers = [p \in Repos |-> NewWorker([t \in Ts |-> 0])]
    /\ prev = NoPrev

----------------------------------------------------------------------------
(* The driver: one call of a transformer on a list of repositories *)

\* what is kept of the last extraction when repository p is taken up with data d:
\* whether it was an extraction of p on the same data that ended normally, and,
\* when it also started from the checkpoint p has now, its queries and records
Previous(p, d) ==
    IF p = repo /\ d = upstream /\ outcome \in {"committed", "no_update"}
    THEN IF checkpoints[resource][p] = cpAtStart
         THEN [repeats |-> TRUE, same_start |-> TRUE, windows |-> windows,
               emitted |-> emitted]
         ELSE [repeats |-> TRUE, same_start |-> FALSE, windows |-> <<>>,
               emitted |-> <<>>]
    ELSE NoPrev

locals == <<checkpoint, cursor, latest_run_date, latest_commit_date, in_limit,
            oldest_run_date, idx>>

\* a run calls the generator afresh: no local is bound yet
StartRun(n) ==
    /\ pc = "idle"
    /\ runs < MaxRuns
    /\ todo' = n
    /\ runs' = runs + 1
    /\ pc' = "next"
    /\ page' = <<>>
    /\ page_bound' = FALSE
    /\ checkpoint' = None
    /\ cursor' = OPEN
    /\ latest_run_date' = None
    /\ latest_commit_date' = None
    /\ in_limit' = TRUE
    /\ oldest_run_date' = None
    /\ idx' = 0
    /\ writes' = [r \in Repos |-> 0]
    /\ visits' = [r \in Repos |-> 0]
    /\ lastWrite' = [r \in Repos |-> None]
    /\ runStartCp' = checkpoints[resource]
    /\ UNCHANGED <<prev, missing_field, checkpoints, resource, repo, upstream, env, workers, emitted, windows,
                   cpAtStart, outcome>>

\* the for loop finds the iterator exhausted
EndRun ==
    /\ pc = "next"
    /\ todo = 0
    /\ pc' = "idle"
    /\ UNCHANGED <<prev, missing_field, checkpoints, resource, todo, repo, locals, page, page_bound,
                   upstream, env, workers, runs, emitted, windows, cpAtStart, outcome,
                   runLog>>

\* the handler stores the newest date seen before the failure
Fail_StoresPartial ==
    /\ pc = "page"
    /\ outcome' = "failed"
    /\ pc' = "next"
    /\ LET seen == IF resource = "commits" THEN latest_commit_date ELSE latest_run_date IN
        IF seen # None
        THEN /\ checkpoints' = [checkpoints EXCEPT ![resource][repo] = seen]
             /\ writes' = [writes EXCEPT ![repo] = @ + 1]
             /\ lastWrite' = [lastWrite EXCEPT ![repo] = seen]
        ELSE UNCHANGED <<checkpoints, writes, lastWrite>>
    /\ UNCHANGED <<prev, missing_field, resource, todo, repo, locals, page, page_bound, upstream, env, workers, runs,
                   emitted, windows, cpAtStart, visits, runStartCp>>

\* the handler re-raises instead of going on with the next repository
Fail_Reraise ==
    /\ pc = "page"
    /\ outcome' = "failed"
    /\ pc' = "idle"
    /\ UNCHANGED <<prev, missing_field, checkpoints, resource, todo, repo, locals, page, page_bound,
                   upstream, env, workers, runs, emitted, windows, cpAtStart, runLog>>

\* except Exception: logger.error(...); continue
\* raised by a request of the paginator
Fail ==
    /\ pc = "page"
    /\ outcome' = "failed"
    /\ pc' = "next"
    /\ UNCHANGED <<prev, missing_field, checkpoints, resource, todo, repo, locals, page, page_bound,
                   upstream, env, workers, runs, emitted, windows, cpAtStart, runLog>>

\* the generator is closed or interrupted while it waits for a page: what is
\* raised is no Exception, and the call ends with the rest of the list unread
Cancel ==
    /\ pc = "page"
    /\ outcome' = "cancelled"
    /\ pc' = "idle"
    /\ UNCHANGED <<prev, missing_field, checkpoints, resource, todo, repo, locals, page, page_bound,
                   upstream, env, workers, runs, emitted, windows, cpAtStart, runLog>>

----------------------------------------------------------------------------
(* workflow_runs *)

\* the cursor is set once, before the for loop, and not again for each repository
WfStartParent_KeepsCursor(p, d) ==
    /\ pc = "next"
    /\ resource = "workflow_runs"
    /\ todo > 0
    /\ todo' = todo - 1
    /\ repo' = p
    /\ upstream' = d
    /\ checkpoint' = GetCheckpoint(checkpoints[resource], p)
    /\ cursor' = cursor
    /\ latest_run_date' = None
    /\ in_limit' = TRUE
    /\ oldest_run_date' = None
    /\ idx' = 0
    /\ windows' = << <<checkpoint', cursor'>> >>
    /\ emitted' = <<>>
    /\ cpAtStart' = checkpoints[resource][p]
    /\ outcome' = "running"
    /\ visits' = [visits EXCEPT ![p] = @ + 1]
    /\ prev' = Previous(p, d)
    /\ missing_field' = FALSE
    /\ pc' = "page"
    /\ UNCHANGED <<checkpoints, resource, latest_commit_date, page, page_bound,
                   env, workers, runs, writes, lastWrite, runStartCp>>

\* for repository in repositories: ... up to the first request of the first window
WfStartParent(p, d) ==
    /\ pc = "next"
    /\ resource = "workflow_runs"
    /\ todo > 0
    /\ todo' = todo - 1
    /\ repo' = p
    /\ upstream' = d
    /\ checkpoint' = GetCheckpoint(checkpoints[resource], p)
    /\ cursor' = OPEN
    /\ latest_run_date' = None
    /\ in_limit' = TRUE
    /\ oldest_run_date' = None
    /\ idx' = 0
    /\ windows' = << <<checkpoint', cursor'>> >>
    /\ emitted' = <<>>
    /\ cpAtStart' = checkpoints[resource][p]
    /\ outcome' = "running"
    /\ visits' = [visits EXCEPT ![p] = @ + 1]
    /\ prev' = Previous(p, d)
    /\ missing_field' = FALSE
    /\ pc' = "page"
    /\ UNCHANGED <<checkpoints, resource, latest_commit_date, page, page_bound,
                   env, workers, runs, writes, lastWrite, runStartCp>>

\* the checkpoint is stored as soon as a page has been yielded
WfPage_EagerCheckpoint(lack) ==
    /\ pc = "page"
    /\ resource = "workflow_runs"
    /\ idx < Len(WorkflowRunsPages)
    /\ WorkflowRunsPages[idx + 1] # <<>>
    /\ LET pg == WorkflowRunsPages[idx + 1] IN
        /\ lack <= Len(pg)
        /\ ~RaisesKeyError(latest_run_date, pg, lack)
        /\ missing_field' = (missing_field \/ lack # 0)
        /\ page' = pg
        /\ page_bound' = TRUE
        /\ latest_run_date' = TrackLatest(latest_run_date, pg)
        /\ oldest_run_date' = TrackOldest(pg)
        /\ emitted' = emitted \o pg
        /\ in_limit' = IF LimitReached(idx) THEN FALSE ELSE in_limit
        /\ idx' = idx + 1
    /\ checkpoints' = [checkpoints EXCEPT ![resource][repo] = latest_run_date']
    /\ UNCHANGED <<prev, resource, todo, pc, repo, checkpoint, cursor,
                   latest_commit_date, upstream, env, workers, runs, windows, cpAtStart,
                   outcome, runLog>>

\* the body of the page loop on a page that holds records, no read of
\* created_at raising
WfPage(lack) ==
    /\ pc = "page"
    /\ resource = "workflow_runs"
    /\ idx < Len(WorkflowRunsPages)
    /\ WorkflowRunsPages[idx + 1] # <<>>
    /\ LET pg == WorkflowRunsPages[idx + 1] IN
        /\ lack <= Len(pg)
        /\ ~RaisesKeyError(latest_run_date, pg, lack)
        /\ missing_field' = (missing_field \/ lack # 0)
        /\ page' = pg
        /\ page_bound' = TRUE
        /\ latest_run_date' = TrackLatest(latest_run_date, pg)
        /\ oldest_run_date' = TrackOldest(pg)
        /\ emitted' = emitted \o pg
        /\ in_limit' = IF LimitReached(idx) THEN FALSE ELSE in_limit
        /\ idx' = idx + 1
    /\ UNCHANGED <<prev, checkpoints, resource, todo, pc, repo, checkpoint, cursor,
                   latest_commit_date, upstream, env, workers, runs, windows, cpAtStart,
                   outcome, runLog>>

\* the two transformers keep their checkpoints in one dict
WfCommit_SharedStore ==
    /\ IF latest_run_date # None
       THEN /\ checkpoints' = [res \in Resources |->
                                [checkpoints[res] EXCEPT ![repo] = latest_run_date]]
            /\ writes' = [writes EXCEPT ![repo] = @ + 1]
            /\ lastWrite' = [lastWrite EXCEPT ![repo] = checkpoints'[resource][repo]]
            /\ outcome' = "committed"
       ELSE /\ outcome' = "no_update"
            /\ UNCHANGED <<checkpoints, writes, lastWrite>>
    /\ pc' = "next"
    /\ UNCHANGED <<cursor, in_limit, oldest_run_date, idx, windows>>

\* the body of the page loop on a page of which page[0] or page[-1] has no
\* created_at: KeyError before the page is yielded, caught by except Exception
WfKeyError(lack) ==
    /\ pc = "page"
    /\ resource = "workflow_runs"
    /\ idx < Len(WorkflowRunsPages)
    /\ WorkflowRunsPages[idx + 1] # <<>>
    /\ LET pg == WorkflowRunsPages[idx + 1] IN
        /\ lack <= Len(pg)
        /\ RaisesKeyError(latest_run_date, pg, lack)
        /\ page' = pg
        /\ page_bound' = TRUE
        /\ latest_run_date' = IF lack = 1 THEN latest_run_date
                                ELSE TrackLatest(latest_run_date, pg)
    /\ missing_field' = TRUE
    /\ outcome' = "failed"
    /\ pc' = "next"
    /\ UNCHANGED <<prev, checkpoints, resource, todo, repo, checkpoint, cursor,
                   latest_commit_date, in_limit, oldest_run_date, idx, upstream, env, workers,
                   runs, emitted, windows, cpAtStart, runLog>>

\* if latest_run_date: checkpoints[repo_full_name] = latest_run_date
WfCommit ==
    /\ IF latest_run_date # None
       THEN /\ checkpoints' = [checkpoints EXCEPT ![resource][repo] = latest_run_date]
            /\ writes' = [writes EXCEPT ![repo] = @ + 1]
            /\ lastWrite' = [lastWrite EXCEPT ![repo] = checkpoints'[resource][repo]]
            /\ outcome' = "committed"
       ELSE /\ outcome' = "no_update"
            /\ UNCHANGED <<checkpoints, writes, lastWrite>>
    /\ pc' = "next"
    /\ UNCHANGED <<cursor, in_limit, oldest_run_date, idx, windows>>

\* the name `page` was never bound: NameError, caught by except Exception
WfUnbound ==
    /\ outcome' = "failed"
    /\ pc' = "next"
    /\ UNCHANGED <<checkpoints, writes, lastWrite, cursor, in_limit, oldest_run_date, idx,
                   windows>>

\* cursor = oldest_run_date, and the while loop opens the next window
WfNarrow ==
    /\ Len(windows) < MaxWindows
    /\ cursor' = NextCursor(cursor, oldest_run_date)
    /\ in_limit' = TRUE
    /\ oldest_run_date' = None
    /\ idx' = 0
    /\ windows' = Append(windows, <<checkpoint, cursor'>>)
    /\ UNCHANGED <<checkpoints, writes, lastWrite, outcome, pc>>

\* from the end of the page loop to the next request: pg is what `page` holds
WfAfterPages(pg, bound) ==
    IF ~bound THEN WfUnbound
    ELSE IF BreakWindowLoop(pg, in_limit) THEN WfCommit
    ELSE WfNarrow

\* if not page: break
WfEmptyPage ==
    /\ pc = "page"
    /\ resource = "workflow_runs"
    /\ idx < Len(WorkflowRunsPages)
    /\ WorkflowRunsPages[idx + 1] = <<>>
    /\ page' = <<>>
    /\ page_bound' = TRUE
    /\ WfAfterPages(<<>>, TRUE)
    /\ UNCHANGED <<prev, missing_field, resource, todo, repo, checkpoint, latest_run_date,
                   latest_commit_date, upstream, env, workers, runs, emitted, cpAtStart, visits, runStartCp>>

\* the paginator has no further page
WfExhausted ==
    /\ pc = "page"
    /\ resource = "workflow_runs"
    /\ idx >= Len(WorkflowRunsPages)
    /\ WfAfterPages(page, page_bound)
    /\ UNCHANGED <<prev, missing_field, resource, todo, repo, checkpoint, latest_run_date,
                   latest_commit_date, page, page_bound, upstream, env, workers, runs,
                   emitted, cpAtStart, visits, runStartCp>>

----------------------------------------------------------------------------
(* commits *)

CommitsStartParent(p, d) ==
    /\ pc = "next"
    /\ resource = "commits"
    /\ todo > 0
    /\ todo' = todo - 1
    /\ repo' = p
    /\ upstream' = d
    /\ checkpoint' = GetCheckpoint(checkpoints[resource], p)
    /\ latest_commit_date' = None
    /\ idx' = 0
    /\ windows' = << <<checkpoint', OPEN>> >>
    /\ emitted' = <<>>
    /\ cpAtStart' = checkpoints[resource][p]
    /\ outcome' = "running"
    /\ visits' = [visits EXCEPT ![p] = @ + 1]
    /\ prev' = Previous(p, d)
    /\ missing_field' = FALSE
    /\ pc' = "page"
    /\ UNCHANGED <<checkpoints, resource, cursor, latest_run_date, in_limit,
                   oldest_run_date, page, page_bound, env, workers, runs, writes, lastWrite, runStartCp>>

CommitsPage ==
    /\ pc = "page"
    /\ resource = "commits"
    /\ idx < Len(CommitsPages)
    /\ CommitsPages[idx + 1] # <<>>
    /\ LET pg == CommitsPages[idx + 1] IN
        /\ page' = pg
        /\ page_bound' = TRUE
        /\ latest_commit_date' = TrackLatest(latest_commit_date, pg)
        /\ emitted' = emitted \o pg
        /\ idx' = idx + 1
    /\ UNCHANGED <<prev, missing_field, checkpoints, resource, todo, pc, repo, checkpoint, cursor,
                   latest_run_date, in_limit, oldest_run_date, upstream, env, workers, runs,
                   windows, cpAtStart, outcome, runLog>>

\* without a date seen, the lower bound of the query is stored
CommitsCommit_StoresLowerBound ==
    /\ IF latest_commit_date # None
       THEN /\ checkpoints' = [checkpoints EXCEPT ![resource][repo] = latest_commit_date]
            /\ outcome' = "committed"
       ELSE /\ checkpoints' = [checkpoints EXCEPT ![resource][repo] = checkpoint]
            /\ outcome' = "no_update"
    /\ writes' = [writes EXCEPT ![repo] = @ + 1]
    /\ lastWrite' = [lastWrite EXCEPT ![repo] = checkpoints'[resource][repo]]
    /\ pc' = "next"

\* if latest_commit_date: checkpoints[repo_full_name] = latest_commit_date
CommitsCommit ==
    /\ IF latest_commit_date # None
       THEN /\ checkpoints' = [checkpoints EXCEPT ![resource][repo] = latest_commit_date]
            /\ writes' = [writes EXCEPT ![repo] = @ + 1]
            /\ lastWrite' = [lastWrite EXCEPT ![repo] = checkpoints'[resource][repo]]
            /\ outcome' = "committed"
       ELSE /\ outcome' = "no_update"
            /\ UNCHANGED <<checkpoints, writes, lastWrite>>
    /\ pc' = "next"

CommitsEmptyPage ==
    /\ pc = "page"
    /\ resource = "commits"
    /\ idx < Len(CommitsPages)
    /\ CommitsPages[idx + 1] = <<>>
    /\ page' = <<>>
    /\ page_bound' = TRUE
    /\ CommitsCommit
    /\ UNCHANGED <<prev, missing_field, resource, todo, repo, checkpoint, cursor, latest_run_date,
                   latest_commit_date, in_limit, oldest_run_date, idx, upstream, env, workers,
                   runs, emitted, windows, cpAtStart, visits, runStartCp>>

CommitsExhausted ==
    /\ pc = "page"
    /\ resource = "commits"
    /\ idx >= Len(CommitsPages)
    /\ CommitsCommit
    /\ UNCHANGED <<prev, missing_field, resource, todo, repo, checkpoint, cursor, latest_run_date,
                   latest_commit_date, in_limit, oldest_run_date, idx, page,
                   page_bound, upstream, env, workers, runs, emitted, windows, cpAtStart,
                   visits, runStartCp>>

----------------------------------------------------------------------------
Next ==
    \/ \E n \in 0..MaxParents : StartRun(n)
    \/ EndRun
    \/ Fail
    \/ Cancel
    \/ \E p \in Repos, d \in Datasets : WfStartParent(p, d)
    \/ \E lack \in 0..MaxPerPage : WfPage(lack)
    \/ \E lack \in 1..MaxPerPage : WfKeyError(lack)
    \/ WfEmptyPage
    \/ WfExhausted
    \/ \E p \in Repos, d \in Datasets : CommitsStartParent(p, d)
    \/ CommitsPage
    \/ CommitsEmptyPage
    \/ CommitsExhausted

Spec == Init /\ [][Next]_vars

----------------------------------------------------------------------------
(* workflow_runs with one process for each repository.  Each process is a   *)
(* call of the generator of its own on the one repository: it has its own   *)
(* locals (workers[p]) and shares with the others the checkpoints dict, of   *)
(* which it reads and writes its own key, each in one step.  Requests        *)
(* succeed and records are complete.                                         *)

sequential == <<todo, pc, repo, locals, page, page_bound, upstream, runs, emitted,
                windows, cpAtStart, outcome, writes, visits, lastWrite, missing_field,
                prev>>

\* the pages of the query worker w has in hand
WorkerPages(w) ==
    Paginate(WorkflowRunsResults(w.upstream, w.checkpoint, w.cursor, inclusiveUpper),
             trailingEmpty)

ParInit ==
    /\ resource = "workflow_runs"
    /\ \E cps \in [Repos -> {None} \cup Ts] :
        /\ checkpoints = [res \in Resources |->
                            IF res = resource THEN cps ELSE [r \in Repos |-> None]]
        /\ runStartCp = cps
    /\ \E us \in [Repos -> Datasets] : workers = [p \in Repos |-> NewWorker(us[p])]
    /\ inclusiveUpper \in BOOLEAN
    /\ trailingEmpty \in BOOLEAN
    /\ per_page \in 1..MaxPerPage
    /\ todo = 0
    /\ pc = "idle"
    /\ repo = 1
    /\ checkpoint = None
    /\ cursor = OPEN
    /\ latest_run_date = None
    /\ latest_commit_date = None
    /\ in_limit = TRUE
    /\ oldest_run_date = None
    /\ idx = 0
    /\ page = <<>>
    /\ page_bound = FALSE
    /\ upstream = [t \in Ts |-> 0]
    /\ runs = 0
    /\ emitted = <<>>
    /\ windows = <<>>
    /\ cpAtStart = None
    /\ outcome = "none"
    /\ writes = [r \in Repos |-> 0]
    /\ visits = [r \in Repos |-> 0]
    /\ lastWrite = [r \in Repos |-> None]
    /\ missing_field = FALSE
    /\ prev = NoPrev

\* the process stores the dict as it was loaded, with its own key set
WorkerCommit_StoresLoadedDict(p, w) ==
    /\ IF w.latest_run_date # None
       THEN /\ checkpoints' = [checkpoints EXCEPT
                                ![resource] = [runStartCp EXCEPT ![p] = w.latest_run_date]]
            /\ workers' = [workers EXCEPT ![p] =
                            [w EXCEPT !.pc = "done", !.outcome = "committed",
                                      !.overlapped = \E q \in Repos : workers[q].pc = "page" /\ q # p]]
       ELSE /\ workers' = [workers EXCEPT ![p] =
                            [w EXCEPT !.pc = "done", !.outcome = "no_update",
                                      !.overlapped = \E q \in Repos : workers[q].pc = "page" /\ q # p]]
            /\ UNCHANGED checkpoints

\* if latest_run_date: checkpoints[repo_full_name] = latest_run_date
WorkerCommit(p, w) ==
    /\ IF w.latest_run_date # None
       THEN /\ checkpoints' = [checkpoints EXCEPT ![resource][p] = w.latest_run_date]
            /\ workers' = [workers EXCEPT ![p] =
                            [w EXCEPT !.pc = "done", !.outcome = "committed",
                                      !.overlapped = \E q \in Repos : workers[q].pc = "page" /\ q # p]]
       ELSE /\ workers' = [workers EXCEPT ![p] =
                            [w EXCEPT !.pc = "done", !.outcome = "no_update",
                                      !.overlapped = \E q \in Repos : workers[q].pc = "page" /\ q # p]]
            /\ UNCHANGED checkpoints

\* the name `page` was never bound: NameError, caught by except Exception
WorkerUnbound(p, w) ==
    /\ workers' = [workers EXCEPT ![p] = [w EXCEPT !.pc = "done", !.outcome = "failed"]]
    /\ UNCHANGED checkpoints

\* cursor = oldest_run_date, and the while loop opens the next window
WorkerNarrow(p, w) ==
    /\ w.queries < MaxWindows
    /\ workers' = [workers EXCEPT ![p] =
                    [w EXCEPT !.cursor = NextCursor(w.cursor, w.oldest_run_date),
                              !.in_limit = TRUE,
                              !.oldest_run_date = None,
                              !.idx = 0,
                              !.queries = @ + 1]]
    /\ UNCHANGED checkpoints

\* from the end of the page loop to the next request; w holds what `page` holds
WorkerAfterPages(p, w) ==
    IF ~w.page_bound THEN WorkerUnbound(p, w)
    ELSE IF BreakWindowLoop(w.page, w.in_limit) THEN WorkerCommit(p, w)
    ELSE WorkerNarrow(p, w)

\* the process of p reads its checkpoint and issues its first query
ParStartParent(p) ==
    /\ workers[p].pc = "start"
    /\ workers' = [workers EXCEPT ![p] =
                    [@ EXCEPT !.pc = "page",
                              !.checkpoint = GetCheckpoint(checkpoints[resource], p),
                              !.cursor = OPEN,
                              !.latest_run_date = None,
                              !.queries = 1,
                              !.outcome = "running"]]
    /\ UNCHANGED <<checkpoints, resource, env, runStartCp, sequential>>

\* the body of the page loop on a page that holds records
ParPage(p) ==
    /\ workers[p].pc = "page"
    /\ workers[p].idx < Len(WorkerPages(workers[p]))
    /\ WorkerPages(workers[p])[workers[p].idx + 1] # <<>>
    /\ LET w == workers[p]
           pg == WorkerPages(w)[w.idx + 1]
       IN workers' = [workers EXCEPT ![p] =
                        [w EXCEPT !.page = pg,
                                  !.page_bound = TRUE,
                                  !.latest_run_date = TrackLatest(w.latest_run_date, pg),
                                  !.oldest_run_date = TrackOldest(pg),
                                  !.emitted = w.emitted \o pg,
                                  !.in_limit = IF LimitReached(w.idx) THEN FALSE ELSE w.in_limit,
                                  !.idx = w.idx + 1]]
    /\ UNCHANGED <<checkpoints, resource, env, runStartCp, sequential>>

\* if not page: break
ParEmptyPage(p) ==
    /\ workers[p].pc = "page"
    /\ workers[p].idx < Len(WorkerPages(workers[p]))
    /\ WorkerPages(workers[p])[workers[p].idx + 1] = <<>>
    /\ WorkerAfterPages(p, [workers[p] EXCEPT !.page = <<>>, !.page_bound = TRUE])
    /\ UNCHANGED <<resource, env, runStartCp, sequential>>

\* the paginator has no further page
ParExhausted(p) ==
    /\ workers[p].pc = "page"
    /\ workers[p].idx >= Len(WorkerPages(workers[p]))
    /\ WorkerAfterPages(p, workers[p])
    /\ UNCHANGED <<resource, env, runStartCp, sequential>>

ParNext ==
    \E p \in Repos :
        \/ ParStartParent(p)
        \/ ParPage(p)
        \/ ParEmptyPage(p)
        \/ ParExhausted(p)

ParSpec == ParInit /\ [][ParNext]_vars

(* The same repositories, one after the other in one call of the generator:  *)
(* what the window loop of one repository yields and leaves behind, and what  *)
(* the for loop makes of the dict.                                            *)

\* the while loop from the query lo..cur on, n further queries followed at most
RECURSIVE SeqWindows(_, _, _, _, _, _, _)
SeqWindows(u, lo, cur, latest, pg, bound, n) ==
    LET results == WorkflowRunsResults(u, lo, cur, inclusiveUpper)
        k == NumPages(results)
        latest2 == IF k > 0 THEN TrackLatest(latest, results) ELSE latest
        oldest == IF k > 0 THEN TrackOldest(results) ELSE None
        inl == ~(k > 0 /\ LimitReached(k - 1))
        pg2 == IF trailingEmpty THEN <<>> ELSE IF k > 0 THEN PageAt(results, k) ELSE pg
        bound2 == trailingEmpty \/ k > 0 \/ bound
    IN  IF ~bound2
        THEN [emitted |-> <<>>, latest |-> latest2, outcome |-> "failed",
              page |-> pg2, bound |-> bound2]
        ELSE IF BreakWindowLoop(pg2, inl)
        THEN [emitted |-> results, latest |-> latest2,
              outcome |-> IF latest2 # None THEN "committed" ELSE "no_update",
              page |-> pg2, bound |-> bound2]
        ELSE IF n = 0
        THEN [emitted |-> results, latest |-> latest2, outcome |-> "running",
              page |-> pg2, bound |-> bound2]
        ELSE LET rest == SeqWindows(u, lo, NextCursor(cur, oldest), latest2, pg2, bound2, n - 1)
             IN [rest EXCEPT !.emitted = results \o @]

\* the for loop from repository p on: the dict and the records of each repository
RECURSIVE SeqRepositories(_, _, _, _, _)
SeqRepositories(p, cps, pg, bound, out) ==
    IF p > NumRepos THEN [checkpoints |-> cps, emitted |-> out]
    ELSE LET r == SeqWindows(workers[p].upstream, GetCheckpoint(cps, p), OPEN, None,
                             pg, bound, MaxWindows - 1)
         IN SeqRepositories(p + 1,
                            IF r.outcome = "committed"
                            THEN [cps EXCEPT ![p] = r.latest] ELSE cps,
                            r.page, r.bound,
                            [out EXCEPT ![p] = r])

\* the repositories of workers, one after the other, from the dict as loaded
Sequentially == SeqRepositories(1, runStartCp, <<>>, FALSE, [p \in Repos |-> <<>>])

----------------------------------------------------------------------------
(* Vocabulary of the properties *)

Range(s) == {s[i] : i \in 1..Len(s)}

\* how often record r was yielded in this extraction
Count(s, r) == Cardinality({i \in 1..Len(s) : s[i] = r})

\* the lower bound a stored checkpoint stands for
Effective(cp) == IF cp = None THEN DEFAULT_START_DATE ELSE cp

Completed == outcome \in {"committed", "no_update"}

IsWorkflowRuns == resource = "workflow_runs"

----------------------------------------------------------------------------
(* C1: whenever workflow_runs commits a watermark W for a repository, every   *)
(* record of the repository upstream with timestamp between the lower bound   *)
(* of the run and W has been yielded in that run.                             *)
C1_NoRecordSkippedBelowWatermark ==
    (IsWorkflowRuns /\ outcome = "committed") =>
        \A r \in Range(AllRecords(upstream)) :
            (checkpoint <= created_at(r) /\ created_at(r) <= checkpoints[resource][repo])
                => r \in Range(emitted)

----------------------------------------------------------------------------
(* C2: a failure of one repository leaves every checkpoint as it is: the ones *)
(* written earlier in this run keep the watermark written, the others keep    *)
(* the value the run started with (the failed repository's among them); and   *)
(* the driver goes on: a run ends with repositories unread only when it was   *)
(* cancelled.                                                                 *)
C2_FailureIsolation ==
    /\ \A p \in Repos :
        checkpoints[resource][p] = IF writes[p] > 0 THEN lastWrite[p] ELSE runStartCp[p]
    /\ outcome = "failed" =>
        /\ checkpoints[resource][repo] = cpAtStart
        /\ pc = "next" \/ (pc = "idle" /\ todo = 0)
    /\ (pc = "idle" /\ todo > 0) => outcome = "cancelled"

\* B has just failed after another repository A was committed in this run, and
\* the for loop is at its head with repositories left
C2_Witness ==
    /\ outcome = "failed"
    /\ pc = "next"
    /\ todo > 0
    /\ \E a \in Repos : a # repo /\ writes[a] > 0 /\ checkpoints[resource][a] # runStartCp[a]

----------------------------------------------------------------------------
(* C3: from the read of its checkpoint to the end of its extraction, and      *)
(* after an extraction that failed or was cancelled, the stored checkpoint of *)
(* the repository is the one read at its start; and every step that writes a *)
(* checkpoint is taken in the page loop when the pages of the query in hand   *)
(* have been read to their end or to their first empty page.                  *)
C3_PagesReadToEnd ==
    IF IsWorkflowRuns
    THEN idx >= Len(WorkflowRunsPages) \/ WorkflowRunsPages[idx + 1] = <<>>
    ELSE idx >= Len(CommitsPages) \/ CommitsPages[idx + 1] = <<>>

C3_CheckpointUntouchedUntilSuccess ==
    /\ []((pc = "page" \/ outcome \in {"failed", "cancelled"}) =>
            checkpoints[resource][repo] = cpAtStart)
    /\ [][(checkpoints' # checkpoints \/ \E r \in Repos : writes'[r] > writes[r]) =>
            (pc = "page" /\ C3_PagesReadToEnd)]_vars

\* a failure in a narrowed window, after records were yielded
C3_Witness ==
    /\ IsWorkflowRuns
    /\ outcome = "failed"
    /\ Len(windows) >= 2
    /\ emitted # <<>>
    /\ latest_run_date # cpAtStart

----------------------------------------------------------------------------
(* C4: the watermark workflow_runs commits is the timestamp of the first      *)
(* record of the first page of the first window, however many windows follow. *)
C4_WatermarkIsFirstRecordSeen ==
    (IsWorkflowRuns /\ Completed /\ emitted # <<>>) =>
        /\ outcome = "committed"
        /\ checkpoints[resource][repo] = created_at(emitted[1])

\* committed after a narrowing whose cursor is not the watermark
C4_Witness ==
    /\ IsWorkflowRuns
    /\ outcome = "committed"
    /\ Len(windows) >= 2
    /\ cursor # checkpoints[resource][repo]
    /\ \E i \in 1..Len(emitted) : created_at(emitted[i]) # checkpoints[resource][repo]

----------------------------------------------------------------------------
(* C5: a completed workflow_runs extraction has yielded every record with a   *)
(* timestamp at or after the lower bound exactly once, and no other record.   *)
C5_EveryRecordExactlyOnce ==
    (IsWorkflowRuns /\ Completed) =>
        \A r \in Range(AllRecords(upstream)) :
            Count(emitted, r) = IF created_at(r) >= checkpoint THEN 1 ELSE 0

----------------------------------------------------------------------------
(* C6: the window loop of workflow_runs ends.  The data of the repository do  *)
(* not change during its extraction and a query is answered by its bounds     *)
(* alone, so a loop that issues a query it has issued before issues it for    *)
(* ever: the loop ends only if every query of an extraction is a new one.     *)
C6_WindowLoopTerminates ==
    IsWorkflowRuns =>
        \A i, j \in 1..Len(windows) : i < j => windows[i] # windows[j]

----------------------------------------------------------------------------
(* C7: at every moment of a run, the checkpoint of every repository is at or  *)
(* after the one the run started with, the default start date standing for an *)
(* absent checkpoint.                                                         *)
C7_WatermarkMonotone ==
    \A p \in Repos :
        Effective(checkpoints[resource][p]) >= Effective(runStartCp[p])

\* a checkpoint that existed before the run has moved forward
C7_Witness ==
    /\ outcome = "committed"
    /\ runStartCp[repo] # None
    /\ checkpoints[resource][repo] > runStartCp[repo]

----------------------------------------------------------------------------
(* C8 as claimed: a checkpoint key is written at most once in a run.          *)
C8_AtMostOneWritePerRun ==
    \A p \in Repos : writes[p] <= 1

(* C8 as amended: a key is written at most once for each time the list holds  *)
(* its repository, hence at most once when the list holds it once, and an     *)
(* extraction that has not ended, or ended otherwise than by a commit, has    *)
(* written nothing.                                                           *)
C8_AtMostOneWritePerOccurrence ==
    \A p \in Repos :
        /\ writes[p] <= visits[p]
        /\ (p = repo /\ visits[p] > 0 /\ outcome # "committed") => writes[p] < visits[p]

\* a run has ended on a list of two repositories: one written once, the other,
\* whose extraction failed, not written
C8_Witness ==
    /\ pc = "idle"
    /\ todo = 0
    /\ outcome = "failed"
    /\ visits[repo] = 1
    /\ writes[repo] = 0
    /\ \E a \in Repos : a # repo /\ visits[a] = 1 /\ writes[a] = 1

----------------------------------------------------------------------------
(* C9: an extraction that repeats the one before it (same repository, same    *)
(* upstream data, the one before having ended normally) leaves the watermark  *)
(* as it found it; when it also started from the same checkpoint, it issues   *)
(* the same queries and yields the same records in the same order.            *)
C9_RerunIdempotent ==
    (prev.repeats /\ Completed) =>
        /\ checkpoints[resource][repo] = cpAtStart
        /\ prev.same_start => (windows = prev.windows /\ emitted = prev.emitted)

\* a repeated workflow_runs extraction of two windows
C9_Witness ==
    /\ IsWorkflowRuns
    /\ prev.same_start
    /\ Completed
    /\ Len(windows) >= 2
    /\ emitted # <<>>

----------------------------------------------------------------------------
(* C10: no checkpoint; the first query yields exactly MaxPagesPerWindow full  *)
(* pages and the query narrowed to the last timestamp of the last of them     *)
(* yields fewer.  Then exactly these two queries are issued, the records of   *)
(* both are yielded, and the watermark is the timestamp of the first record.  *)
C10_FirstResults == WorkflowRunsResults(upstream, DEFAULT_START_DATE, OPEN, inclusiveUpper)

C10_Boundary == created_at(C10_FirstResults[Len(C10_FirstResults)])

C10_SecondResults ==
    WorkflowRunsResults(upstream, DEFAULT_START_DATE, C10_Boundary, inclusiveUpper)

C10_Scenario ==
    /\ IsWorkflowRuns
    /\ Completed
    /\ cpAtStart = None
    /\ LET first == Paginate(C10_FirstResults, trailingEmpty) IN
        /\ Len(first) = MaxPagesPerWindow
        /\ \A n \in 1..Len(first) : Len(first[n]) = per_page
    /\ Len(Paginate(C10_SecondResults, trailingEmpty)) < MaxPagesPerWindow

C10_TwoWindows ==
    C10_Scenario =>
        /\ windows = << <<DEFAULT_START_DATE, OPEN>>, <<DEFAULT_START_DATE, C10_Boundary>> >>
        /\ emitted = C10_FirstResults \o C10_SecondResults
        /\ outcome = "committed"
        /\ checkpoints[resource][repo] = created_at(C10_FirstResults[1])

\* the scenario, with records in the second window
C10_Witness ==
    /\ C10_Scenario
    /\ C10_SecondResults # <<>>
    /\ C10_Boundary # created_at(C10_FirstResults[1])

----------------------------------------------------------------------------
(* C11: in a workflow_runs extraction, a query whose first page holds records *)
(* is followed by a narrowed query if and only if its pages with records      *)
(* number MaxPagesPerWindow, with either kind of paginator: every query but   *)
(* the last one had that many pages, and the last query of an extraction      *)
(* that ended normally had fewer.                                             *)
C11_PagesWithRecords(i) ==
    NumPages(WorkflowRunsResults(upstream, windows[i][1], windows[i][2], inclusiveUpper))

C11_NarrowsIffCapReached ==
    IsWorkflowRuns =>
        \A i \in 1..Len(windows) :
            C11_PagesWithRecords(i) > 0 =>
                /\ i < Len(windows) => C11_PagesWithRecords(i) >= MaxPagesPerWindow
                /\ (i = Len(windows) /\ Completed) =>
                        C11_PagesWithRecords(i) < MaxPagesPerWindow

----------------------------------------------------------------------------
(* C12: within one workflow_runs extraction the first query has the open      *)
(* upper bound, every later query has an upper bound that is a timestamp      *)
(* strictly below the upper bound of the query before it, and every query has *)
(* as lower bound the checkpoint read when the repository was taken up.       *)
C12_Below(hi, before) == hi # OPEN /\ (before = OPEN \/ hi < before)

C12_WindowsStrictlyDecreasing ==
    IsWorkflowRuns =>
        /\ \A i \in 1..Len(windows) : windows[i][1] = Effective(cpAtStart)
        /\ Len(windows) > 0 => windows[1][2] = OPEN
        /\ \A i \in 2..Len(windows) : C12_Below(windows[i][2], windows[i - 1][2])

----------------------------------------------------------------------------
(* C13: when a workflow_runs extraction has ended normally, for every query   *)
(* of it that the cap has cut, every record upstream inside the bounds of     *)
(* that query that carries the timestamp of the last record the query         *)
(* returned has been yielded, be it by that query or by a later one.          *)
C13_Results(i) ==
    WorkflowRunsResults(upstream, windows[i][1], windows[i][2], inclusiveUpper)

C13_CutByCap(i) ==
    /\ Len(C13_Results(i)) = Cap
    /\ \E r \in Range(AllRecords(upstream)) :
        /\ InCreatedRange(r, windows[i][1], windows[i][2], inclusiveUpper)
        /\ r \notin Range(C13_Results(i))

C13_NoBoundaryRecordDropped ==
    (IsWorkflowRuns /\ Completed) =>
        \A i \in 1..Len(windows) :
            C13_CutByCap(i) =>
                \A r \in Range(AllRecords(upstream)) :
                    (/\ InCreatedRange(r, windows[i][1], windows[i][2], inclusiveUpper)
                     /\ created_at(r) = created_at(C13_Results(i)[Cap]))
                        => r \in Range(emitted)

----------------------------------------------------------------------------
(* C14: a workflow_runs query that yields no record (its first page is empty, *)
(* or the paginator hands out no page at all), be it the first query of the   *)
(* extraction or a narrowed one, ends the extraction normally: it is not      *)
(* recorded as failed, and the checkpoint becomes latest_run_date when a      *)
(* record was seen in an earlier window and stays as it is otherwise.         *)
C14_EmptyResultEndsNormally ==
    [][(idx = 0 /\ (WfEmptyPage \/ WfExhausted)) =>
            IF latest_run_date # None
            THEN /\ outcome' = "committed"
                 /\ checkpoints'[resource][repo] = latest_run_date
            ELSE /\ outcome' = "no_update"
                 /\ checkpoints' = checkpoints]_vars

----------------------------------------------------------------------------
(* C15: an extraction of commits or of workflow_runs that has ended normally  *)
(* without having seen a record has left the checkpoint of its repository as  *)
(* it was when the extraction started; a repository that had no checkpoint    *)
(* has none, the start date it was read from is not stored.                   *)
C15_NoUpdateWithoutRecords ==
    (Completed /\ emitted = <<>>) =>
        /\ outcome = "no_update"
        /\ checkpoints[resource][repo] = cpAtStart

\* a repository without checkpoint and without records has been extracted
C15_Witness ==
    /\ outcome = "no_update"
    /\ pc = "next"
    /\ cpAtStart = None
    /\ checkpoint = DEFAULT_START_DATE
    /\ checkpoints[resource][repo] = None

----------------------------------------------------------------------------
(* C16: a step changes at most one checkpoint, the one of the repository in   *)
(* hand in the checkpoints of the transformer that is running, and only from  *)
(* within the extraction of that repository; the checkpoints of the other     *)
(* repositories and all checkpoints of the other transformer stay as they     *)
(* are, whether the extraction ends normally or fails.                        *)
C16_FrameOfExtraction ==
    [][\A res \in Resources, p \in Repos :
            checkpoints'[res][p] # checkpoints[res][p] =>
                (res = resource /\ p = repo /\ pc = "page")]_vars

\* a repository has been committed in a run that found a checkpoint of another
\* repository and has not written it
C16_Witness ==
    /\ outcome = "committed"
    /\ pc = "next"
    /\ checkpoints[resource][repo] # cpAtStart
    /\ \E a \in Repos :
        /\ a # repo
        /\ writes[a] = 0
        /\ runStartCp[a] # None
        /\ checkpoints[resource][a] = runStartCp[a]

----------------------------------------------------------------------------
(* C17: commits issues one query for a repository, from its checkpoint (the   *)
(* start date when it has none) with no upper bound; the records yielded are  *)
(* at any moment a prefix of the records upstream at or after that lower      *)
(* bound, in the order of the API; when the extraction has ended normally     *)
(* they are all of them, page after page up to the first empty page, and the  *)
(* checkpoint is the timestamp of the first of them when there is one.        *)
C17_Since == SelectSeq(AllRecords(upstream), LAMBDA r : created_at(r) >= Effective(cpAtStart))

C17_SimpleIncrementalFetch ==
    (resource = "commits" /\ outcome # "none") =>
        /\ windows = << <<Effective(cpAtStart), OPEN>> >>
        /\ Len(emitted) <= Len(C17_Since)
        /\ emitted = SubSeq(C17_Since, 1, Len(emitted))
        /\ Completed =>
            /\ emitted = C17_Since
            /\ emitted # <<>> =>
                /\ outcome = "committed"
                /\ checkpoints[resource][repo] = created_at(emitted[1])

\* commits has ended normally after several pages, records older than the
\* checkpoint it started from left out
C17_Witness ==
    /\ resource = "commits"
    /\ outcome = "committed"
    /\ cpAtStart # None
    /\ Len(emitted) >= 2
    /\ Len(emitted) < Len(AllRecords(upstream))

----------------------------------------------------------------------------
(* C18: once a page read in a workflow_runs extraction has held a record      *)
(* without created_at, the extraction has failed, with the checkpoint of the  *)
(* repository as it was at its start and the records yielded before kept.     *)
C18_MissingTimestampIsFatal ==
    (IsWorkflowRuns /\ missing_field) =>
        /\ outcome = "failed"
        /\ checkpoints[resource][repo] = cpAtStart

----------------------------------------------------------------------------
(* C19: when the repositories are extracted by one process each, their steps  *)
(* interleaved in any way, and all processes have ended, the checkpoints are  *)
(* those that extracting the same repositories one after the other from the   *)
(* same checkpoints leaves, and each process has yielded the records that the *)
(* sequential extraction yields for its repository, in the same order.        *)
C19_AllDone == \A p \in Repos : workers[p].pc = "done"

C19_ParallelEqualsSequential ==
    C19_AllDone =>
        /\ checkpoints[resource] = Sequentially.checkpoints
        /\ \A p \in Repos :
            /\ Sequentially.emitted[p].outcome # "running"
            /\ workers[p].emitted = Sequentially.emitted[p].emitted

\* two processes have ended with a commit each, one of them after a narrowed
\* query, and one committed while the other was reading pages
C19_Witness ==
    /\ C19_AllDone
    /\ \A p \in Repos :
        /\ workers[p].outcome = "committed"
        /\ checkpoints[resource][p] # runStartCp[p]
    /\ \E p \in Repos : workers[p].overlapped
    /\ \E p \in Repos : workers[p].queries >= 2

====
